---- MODULE Spec2Model ----
(***************************************************************************)
(* Model of afcarl/lfd:                                                    *)
(*   src/lfd/transfer/registration_transfer.py  (transfer strategies and   *)
(*       the decomposed registration/trajectory coordinator loop)          *)
(*   src/core/action_selection.py               (greedy and beam-search    *)
(*       action selection)                                                 *)
(*                                                                         *)
(* Floating point numbers are modelled as pairs <<kind, v>>:               *)
(*   <<"num", v>>  the finite value v * 1e-5 (fixed point, exact),         *)
(*   <<"inf", s>>  s * infinity (s = 1 or -1),   <<"nan", 0>>  NaN.        *)
(* Rounding of finite values is not modelled.                              *)
(***************************************************************************)
EXTENDS Integers, Sequences, FiniteSets, TLC

(***************************************************************************)
(* Bounds of the model.                                                    *)
(***************************************************************************)
MaxSteps == 2       \* largest number of resampled timesteps
NTraj == 2          \* distinct joint trajectories the optimizer may return
MaxObjects == 2     \* transferer objects alive at once
MaxActions == 3     \* candidate actions known to the cost oracle
MaxCost == 2        \* largest cost the oracle reports
MaxDemos == 2       \* demonstrations the beam search chooses from

(***************************************************************************)
(* Program constants (registration_transfer.py, transfer).                 *)
(***************************************************************************)
max_iter == 20          \* line 409
LambdaBias == 100       \* line 223:  .001            (in units of 1e-5)
NuDen == 1000           \* line 407:  nu = 0.001 = 1/1000
ThreshCoef == 1000      \* line 408:  1e-2            (in units of 1e-5)
PtsPerFinger == 4       \* lines 243, 419, 428: 4 contact points per finger
Dim == 3                \* lines 419: points are 3-dimensional
DofsPerArm == 8         \* line 296: 7 arm joints + 1 finger joint per arm
CollisionCoeff == 1000  \* line 390: "coeffs" : [1000]
DistPenMilli == 25      \* line 391: "dist_pen" : [0.025]   (in units of 1e-3)

(***************************************************************************)
(* Program constants (action_selection.py, MmqeActionSelection.__init__).  *)
(***************************************************************************)
DefaultWidth == 3       \* line 42: width=3
DefaultDepth == 2       \* line 42: depth=2

(***************************************************************************)
(* IEEE-like arithmetic on the float model.                                *)
(***************************************************************************)
Num(v) == <<"num", v>>
NaN == <<"nan", 0>>
Inf(s) == <<"inf", s>>
IsFinite(x) == x[1] = "num"

FNeg(x) == IF x[1] = "nan" THEN NaN ELSE <<x[1], 0 - x[2]>>

FAdd(x, y) ==
    IF x[1] = "nan" \/ y[1] = "nan" THEN NaN
    ELSE IF x[1] = "inf" /\ y[1] = "inf"
         THEN (IF x[2] = y[2] THEN x ELSE NaN)
    ELSE IF x[1] = "inf" THEN x
    ELSE IF y[1] = "inf" THEN y
    ELSE Num(x[2] + y[2])

FSub(x, y) == FAdd(x, FNeg(y))

FAbs(x) ==
    IF x[1] = "nan" THEN NaN
    ELSE IF x[1] = "inf" THEN Inf(1)
    ELSE Num(IF x[2] < 0 THEN 0 - x[2] ELSE x[2])

\* x < y as Python/IEEE compares floats: any comparison with NaN is False
FLess(x, y) ==
    IF x[1] = "nan" \/ y[1] = "nan" THEN FALSE
    ELSE IF x[1] = "inf" THEN x[2] < 0 /\ y # x
    ELSE IF y[1] = "inf" THEN y[2] > 0
    ELSE x[2] < y[2]

\* nu * x with nu = 1/NuDen (the sampled finite values are multiples of NuDen)
FMulNu(x) == IF x[1] = "num" THEN Num(x[2] \div NuDen) ELSE x

(***************************************************************************)
(* Point arrays: a sequence of rows, each row a sequence of Dim floats.    *)
(***************************************************************************)
Uniform(rows, x) == [r \in 1..rows |-> [c \in 1..Dim |-> x]]

OneOff(rows, x) ==
    [r \in 1..rows |-> [c \in 1..Dim |-> IF r = 1 /\ c = 1 THEN x ELSE Num(0)]]

\* every entry x, except 2x at [1][1] and 0 at [1][2]: the entries differ from
\* row to row and their absolute values sum to rows * Dim * |x|
Skewed(rows, x) ==
    [r \in 1..rows |->
        [c \in 1..Dim |-> IF r = 1 /\ c = 1 THEN FAdd(x, x)
                          ELSE IF r = 1 /\ c = 2 THEN Num(0) ELSE x]]

Size(A) == Len(A) * Dim                     \* numpy's A.size

AllFinite(A) == \A r \in 1..Len(A) : \A c \in 1..Dim : IsFinite(A[r][c])

\* points_to_array: np.r_ of the two fingers' point lists, reshaped to rows
points_to_array_rows(len_l, len_r) == (len_l + len_r) * PtsPerFinger

\* lambda_bd = np.zeros(tau_bd.shape); lambda_bd[:,0] = .001
InitLambda(rows) ==
    [r \in 1..rows |-> [c \in 1..Dim |-> IF c = 1 THEN Num(LambdaBias) ELSE Num(0)]]

\* numpy's A - B on two (rows, 3) arrays with rows >= 8: defined only for
\* equal shapes (no broadcasting applies), otherwise ValueError
ShapesAgree(A, B) == Len(A) = Len(B)

\* traj_diff = trajpts_traj - trajpts_tps
TrajDiff(trajpts_traj, trajpts_tps) ==
    [r \in 1..Len(trajpts_traj) |->
        [c \in 1..Dim |-> FSub(trajpts_traj[r][c], trajpts_tps[r][c])]]

\* Python's sum(s): 0 + s[1] + ... + s[n]
RECURSIVE SumTo(_, _)
SumTo(s, n) == IF n = 0 THEN Num(0) ELSE FAdd(SumTo(s, n - 1), s[n])

SumSeq(s) == SumTo(s, Len(s))

\* abs_traj_diff = sum(sum(abs(traj_diff)))
AbsTrajDiff(traj_diff) ==
    SumSeq([r \in 1..Len(traj_diff) |->
               SumSeq([c \in 1..Dim |-> FAbs(traj_diff[r][c])])])

DualUpdate_Added(lam, traj_diff) ==
    [r \in 1..Len(lam) |->
        [c \in 1..Dim |-> FAdd(lam[r][c], FMulNu(traj_diff[r][c]))]]

\* lambda_bd = lambda_bd - nu * traj_diff
DualUpdate(lam, traj_diff) ==
    [r \in 1..Len(lam) |->
        [c \in 1..Dim |-> FSub(lam[r][c], FMulNu(traj_diff[r][c]))]]

\* traj_diff_thresh = 1e-2 * lambda_bd.size
TrajDiffThresh(lam) == Num(ThreshCoef * Size(lam))

ConvergenceTest_AtOrBelow(abs_traj_diff, thresh) ==
    FLess(abs_traj_diff, thresh) \/ abs_traj_diff = thresh

\* if abs_traj_diff < traj_diff_thresh: break
ConvergenceTest(abs_traj_diff, thresh) == FLess(abs_traj_diff, thresh)

RangeExhausted_OneMore(done) == done = max_iter + 1

\* for itr in range(max_iter): the loop ends when the range is exhausted
RangeExhausted(done) == done = max_iter

(***************************************************************************)
(* External collaborators, as the sets of results they may produce.        *)
(***************************************************************************)
Sides == {"l", "r"}
TrajIds == 1..NTraj               \* 0 names init_traj, the resampled demo guess

\* trajoptpy.OptimizeProblem: the joint trajectory of the result and whether
\* the optimizer reports that it converged
SolverSamples == [traj : TrajIds, converged : BOOLEAN]

\* contact points achieved by the optimized trajectory: sim_util.get_finger_pts_traj
AchievedSamples(rows) ==
    { Uniform(rows, Num(0)),                              \* discrepancy 0
      OneOff(rows, Num(ThreshCoef * (rows * Dim - 1))),   \* just below the threshold
      Skewed(rows, Num(ThreshCoef)),                      \* exactly the threshold
      OneOff(rows, Inf(1)) }                              \* infinite

\* warp-transformed demonstration points: reg.f.transform_points(tau_bd); a
\* warp with non-finite parameters transforms every point to NaN
WarpedSamples(th, rows) ==
    IF th = "nan" THEN { Uniform(rows, NaN) }
    ELSE { Uniform(rows, Num(0)) }

\* tps.tps_fit_decomp: theta of the solved system; non-finite offsets give a
\* non-finite theta, finite ones may still give one (singular system)
FitSamples(lam) == IF AllFinite(lam) THEN {"finite", "nan"} ELSE {"nan"}

\* open/close finger events of the resampled demonstration
EventSamples(n) ==
    { [open |-> [i \in 1..n |-> i = 1], close |-> [i \in 1..n |-> i = n]],
      [open |-> [i \in 1..n |-> FALSE], close |-> [i \in 1..n |-> i = 1]] }

NoEvents == [open |-> <<>>, close |-> <<>>]

\* the numbers of timesteps unif_resample may give: the smallest and the largest
StepSamples == {1, MaxSteps}

\* self.use_collision_cost of the transferer the call is made on: the sampled
\* calls pair a set collision cost with the demonstrations that open a finger
self_use_collision_cost(ev) == \E i \in 1..Len(ev.open) : ev.open[i]

(***************************************************************************)
(* State of one call of DecompRegistrationAndTrajectoryTransferer.transfer *)
(***************************************************************************)
VARIABLES
    pc,         \* "idle", "loop", "exited", "returned", "raised"
    itr,        \* completed passes of the loop body
    n_steps,    \* init_traj.shape[0]
    active_lr,  \* arms that moved in the demonstration, in 'lr' order
    rs_events,  \* demo_aug_traj_rs.lr2open_finger_traj / lr2close_finger_traj
    lambda_bd,  \* dual variables
    theta,      \* reg.f's parameters: "finite" or "nan"
    cur_traj,   \* id of the current joint trajectory
    outcome,    \* what transfer gave back to its caller
    request,    \* the base optimization request (lines 369-393)
    request_i,  \* the request of the current pass, as given to the optimizer
    fit_in,     \* the locals bend_coefs, rot_coefs, wt_n read by the refits
    last_fit,   \* the arguments of the last tps.tps_fit_decomp call
    calls,      \* history: number of optimizer solves, warp refits, dual updates
    hist        \* history: abs  the last abs_traj_diff; exit  how the loop ended;
                \* solver_failed  some solve did not converge; last_solved  the
                \* trajectory of the last solve; mismatch  the call's contact-point
                \* lengths disagreed with n_steps; first_below  the first pass
                \* whose abs_traj_diff was below the threshold (0: none yet);
                \* diff_sum  the entrywise sum of the traj_diff arrays so far

coordVars == <<pc, itr, n_steps, active_lr, rs_events, lambda_bd, theta, cur_traj,
               request, request_i, fit_in, last_fit, outcome, calls, hist>>

(***************************************************************************)
(* State of the transferer constructors and of greedy action selection.    *)
(***************************************************************************)
VARIABLES
    objects,    \* the transferer objects constructed so far
    last_new,   \* the last constructor call: its arguments and how it ended
    reached,    \* the objects whose transfer has been entered
    g_call,     \* the last GreedyActionSelection.plan_agenda call
    beam        \* the MmqeActionSelection object, its plan_agenda call and
                \* the scene held by the simulator it was given

ctorVars == <<objects, last_new, reached>>
greedyVars == <<g_call, beam>>

vars == <<pc, itr, n_steps, active_lr, rs_events, lambda_bd, theta, cur_traj,
          request, request_i, fit_in, last_fit, outcome, calls, hist,
          objects, last_new, reached, g_call, beam>>

NoOutcome == [kind |-> "none", error |-> "", traj |-> 0, events |-> NoEvents]
Raised(e) == [kind |-> "raised", error |-> e, traj |-> 0, events |-> NoEvents]

\* demonstration.AugmentedTrajectory.create_from_full_traj(robot, (cur_traj, dof_inds),
\*     lr2open_finger_traj=..., lr2close_finger_traj=...)
AugTraj(traj, events) ==
    [kind |-> "aug_traj", error |-> "", traj |-> traj, events |-> events]

\* a request: its cost terms in order and the id of its initial trajectory
NoRequest == [costs |-> <<>>, init_info |-> 0]
NoFit == [bend_coefs |-> "", rot_coefs |-> "", wt_n |-> "", offsets |-> <<>>]

NoCall == [cls |-> "", registration_factory |-> "", trajectory_transferer |-> "",
           error |-> ""]
NoPlan == [items |-> <<>>, kind |-> "none", error |-> "", agenda |-> <<>>,
           q_values |-> <<>>]

NoBeam == [pc |-> "none", width |-> 0, depth |-> 0, transferer |-> "", lfd_env |-> "",
           goal |-> <<>>, restores |-> FALSE, level |-> 0, frontier |-> <<>>,
           todo |-> <<>>, children |-> <<>>, sims |-> <<>>, env_scene |-> <<>>,
           agenda |-> <<>>, value |-> 0]

Init ==
    /\ beam = NoBeam
    /\ objects = {}
    /\ last_new = NoCall
    /\ reached = {}
    /\ g_call = NoPlan
    /\ pc = "idle"
    /\ itr = 0
    /\ n_steps = 0
    /\ active_lr = <<>>
    /\ rs_events = NoEvents
    /\ lambda_bd = <<>>
    /\ theta = "finite"
    /\ cur_traj = 0
    /\ request = NoRequest
    /\ request_i = NoRequest
    /\ fit_in = [bend_coefs |-> "", rot_coefs |-> "", wt_n |-> ""]
    /\ last_fit = NoFit
    /\ outcome = NoOutcome
    /\ calls = [solve |-> 0, fit |-> 0, update |-> 0]
    /\ hist = [abs |-> Num(0), exit |-> "none", solver_failed |-> FALSE,
               last_solved |-> 0, mismatch |-> FALSE, first_below |-> 0,
               diff_sum |-> <<>>]

(***************************************************************************)
(* transfer, lines 205-408: registration, initial duals and warp fit,      *)
(* resampling, per-arm set-up, precondition assertions, base request.      *)
(***************************************************************************)
\* lines 274-277: the arms present in the demonstration that moved
ActiveLr(present, moved) ==
    SelectSeq(<<"l", "r">>, LAMBDA lr : lr \in present /\ lr \in moved)

AssertionsHold_LeftFingerOnly(n, ncols, dof_count, lens, n_link_groups) ==
    /\ ncols = dof_count
    /\ \A g \in 1..Len(lens) : lens[g]["l"] = n
    /\ n_link_groups = Len(lens)

\* lines 343-349: the assertions guarding the optimization
\*   assert init_traj.shape[1] == len(dof_inds)
\*   for each arm, for each finger: assert len(demo_finger_pts_traj) == n_steps
\*   assert len(flr2finger_link_names) == len(flr2demo_finger_pts_trajs)
AssertionsHold(n, ncols, dof_count, lens, n_link_groups) ==
    /\ ncols = dof_count
    /\ \A g \in 1..Len(lens) : \A flr \in Sides : lens[g][flr] = n
    /\ n_link_groups = Len(lens)

(***************************************************************************)
(* Arguments of the warp fit (lines 215-234 and 351-360).                  *)
(***************************************************************************)
\* np.ones(d) * coef if np.isscalar(coef) else coef
PerDimension(coef) == IF coef = "scalar" THEN "per_dim" ELSE coef

\* lines 353-360, on the shape of f.wt_n: None -> ones(n); (n,) -> (n,1);
\* (n,1) -> tiled to (n,d)
ExpandWeights(wt) ==
    LET present == IF wt = "None" THEN "(n,)" ELSE wt
        column == IF present = "(n,)" THEN "(n,1)" ELSE present
    IN IF column = "(n,1)" THEN "(n,d)" ELSE column

\* -A
NegArray(A) == [r \in 1..Len(A) |-> [c \in 1..Dim |-> FNeg(A[r][c])]]

\* line 233: the fit before the loop is given reg.f.wt_n as it is and lambda_bd
InitialFitArgs(reg, lam) ==
    [bend_coefs |-> PerDimension(reg.bend_coef), rot_coefs |-> PerDimension(reg.rot_coef),
     wt_n |-> reg.wt_n, offsets |-> lam]

\* the locals bend_coefs, rot_coefs (lines 231-232) and wt_n (lines 353-360)
\* that the loop reads
FitLocals(reg) ==
    [bend_coefs |-> PerDimension(reg.bend_coef), rot_coefs |-> PerDimension(reg.rot_coef),
     wt_n |-> ExpandWeights(reg.wt_n)]

\* line 481: the refit of a pass is given those locals and -lambda_bd
RefitArgs(locals, lam) ==
    [bend_coefs |-> locals.bend_coefs, rot_coefs |-> locals.rot_coefs,
     wt_n |-> locals.wt_n, offsets |-> NegArray(lam)]

\* what the registration may hold: bend_coef and rot_coef scalar or
\* per-dimension, wt_n None or of shape (n,), (n,1), (n,d)
RegSamples ==
    { [bend_coef |-> "scalar", rot_coef |-> "scalar", wt_n |-> "None"],
      [bend_coef |-> "per_dim", rot_coef |-> "scalar", wt_n |-> "(n,)"],
      [bend_coef |-> "scalar", rot_coef |-> "per_dim", wt_n |-> "(n,1)"],
      [bend_coef |-> "per_dim", rot_coef |-> "per_dim", wt_n |-> "(n,d)"] }

(***************************************************************************)
(* The optimization request (lines 369-393 and 415-447).  A cost term is a *)
(* record: type, coeff (a pair <<numerator, denominator>> or a number),    *)
(* dist_pen, lambdas, link (<<arm, finger>>), timestep.                    *)
(***************************************************************************)
JointVelCost(n) ==
    [type |-> "joint_vel", coeff |-> <<"gamma", n - 1>>, dist_pen |-> 0,
     lambdas |-> <<>>, link |-> <<>>, timestep |-> 0]

CollisionCost ==
    [type |-> "collision", coeff |-> <<CollisionCoeff, 1>>, dist_pen |-> DistPenMilli,
     lambdas |-> <<>>, link |-> <<>>, timestep |-> 0]

\* lines 369-393
BaseRequest(n, use_collision_cost) ==
    [costs |-> <<JointVelCost(n)>> \o (IF use_collision_cost THEN <<CollisionCost>> ELSE <<>>),
     init_info |-> 0]

\* A[first : first + 4, :] with first counted from 0
Rows(A, first) == [j \in 1..PtsPerFinger |-> A[first + j]]

\* lines 427-447: the contact-following term built for i_step
RelPtsLambdasCost(lam, i_step, arm, n) ==
    LET traj_dim == Len(lam) \div 2
        finger_lr == IF i_step < traj_dim THEN "l" ELSE "r"
        traj_step == IF i_step < traj_dim THEN i_step ELSE i_step - traj_dim
    IN [type |-> "rel_pts_lambdas", coeff |-> <<"beta_pos", n>>, dist_pen |-> 0,
        lambdas |-> NegArray(Rows(lam, traj_step)),
        link |-> <<arm, finger_lr>>,
        timestep |-> traj_step \div PtsPerFinger]

\* range(0, traj_dim*2, 4)
ISteps(lam) ==
    LET stop == (Len(lam) \div 2) * 2
    IN [k \in 1..((stop + PtsPerFinger - 1) \div PtsPerFinger) |-> (k - 1) * PtsPerFinger]

\* lines 415-447: request_i = copy.deepcopy(request), with init_info and one
\* rel_pts_lambdas term per i_step added; arm is the last active arm, whose
\* link names flr2finger_link_name holds
BuildRequest(base, lam, cur, arm, n) ==
    [costs |-> base.costs \o
               [k \in 1..Len(ISteps(lam)) |-> RelPtsLambdasCost(lam, ISteps(lam)[k], arm, n)],
     init_info |-> cur]

\* the first exception raised by lines 205-408, "" if none
BeginError(present, active, n, dof_count, lens) ==
    IF "r" \notin present THEN "KeyError"            \* line 187: lr2arm_traj['r']
    ELSE IF Len(active) = 0 THEN "ValueError"        \* line 278: np.concatenate([])
    ELSE IF ~AssertionsHold(n, DofsPerArm * Len(active), dof_count, lens, Len(active))
         THEN "AssertionError"                       \* lines 345-349
    ELSE IF n - 1 = 0 THEN "ZeroDivisionError"       \* line 378: gamma/(n_steps-1)
    ELSE ""

\* some finger's contact-point trajectory differs in length from init_traj
LengthMismatch(n, lens) ==
    \E g \in 1..Len(lens) : \E flr \in Sides : lens[g][flr] # n

TransferBegin ==
    /\ pc = "idle"
    /\ \E present \in SUBSET Sides, T_tau \in StepSamples, T_rs \in StepSamples,
          th \in {"finite", "nan"}, reg \in RegSamples :
       \E moved \in SUBSET present :
          LET active == ActiveLr(present, moved)
              \* unif_resample over the right arm alone (line 187) and over the
              \* active arms (line 278) see the same input when only 'r' is active
              n == IF active = <<"r">> THEN T_tau ELSE T_rs
          IN \E lens \in [1..Len(active) -> [Sides -> {n - 1, n}]],
                dof_count \in {DofsPerArm * Len(active), DofsPerArm * Len(active) + 1},
                ev \in EventSamples(n) :
                \E use_collision_cost \in {self_use_collision_cost(ev)} :
                LET err == BeginError(present, active, n, dof_count, lens)
                    rows == points_to_array_rows(T_tau, T_tau)
                IN /\ hist' = [hist EXCEPT !.mismatch = LengthMismatch(n, lens),
                                           !.diff_sum = IF err # "" THEN <<>>
                                                        ELSE Uniform(rows, Num(0))]
                   /\ IF err # ""
                      THEN /\ pc' = "raised"
                           /\ outcome' = Raised(err)
                           /\ UNCHANGED <<itr, n_steps, active_lr, rs_events,
                                          lambda_bd, theta, cur_traj, calls,
                                          request, request_i, fit_in, last_fit>>
                      ELSE /\ pc' = "loop"
                           /\ n_steps' = n
                           /\ active_lr' = active
                           /\ rs_events' = ev
                           /\ lambda_bd' = InitLambda(rows)      \* lines 213, 223
                           /\ theta' = th                         \* lines 233-234
                           /\ last_fit' = InitialFitArgs(reg, InitLambda(rows))
                           /\ fit_in' = FitLocals(reg)
                           /\ request' = BaseRequest(n, use_collision_cost)
                           /\ request_i' = NoRequest
                           /\ cur_traj' = 0                       \* line 410
                           /\ UNCHANGED <<itr, outcome, calls>>
    /\ UNCHANGED <<ctorVars, greedyVars>>

(***************************************************************************)
(* transfer, lines 412-500: one pass of the alternating loop.              *)
(***************************************************************************)
\* how the pass leaves the loop: "converged" (break), "cap" (range
\* exhausted), or "" (another pass follows)
LoopExit(abs_traj_diff, thresh, done) ==
    IF ConvergenceTest(abs_traj_diff, thresh) THEN "converged"
    ELSE IF RangeExhausted(done) THEN "cap"
    ELSE ""

Iterate ==
    /\ pc = "loop"
    /\ \E req \in {BuildRequest(request, lambda_bd, cur_traj,
                                active_lr[Len(active_lr)], n_steps)},
          fit \in {RefitArgs(fit_in, lambda_bd)},
          th \in FitSamples(lambda_bd) :
       \E trajpts_traj \in AchievedSamples(points_to_array_rows(n_steps, n_steps)),
          trajpts_tps \in WarpedSamples(th, Len(lambda_bd)) :
          /\ request_i' = req                                     \* lines 415-447
          /\ last_fit' = fit                                      \* line 481
          /\ theta' = th                                          \* lines 481-482
          /\ IF ~ShapesAgree(trajpts_traj, trajpts_tps)
             THEN /\ pc' = "raised"                               \* line 492
                  /\ outcome' = Raised("ValueError")
                  /\ \E res \in SolverSamples :
                        /\ cur_traj' = res.traj
                        /\ hist' = [hist EXCEPT !.solver_failed = @ \/ ~res.converged,
                                                !.last_solved = res.traj]
                  /\ calls' = [calls EXCEPT !.solve = @ + 1, !.fit = @ + 1]
                  /\ UNCHANGED <<itr, lambda_bd>>
             ELSE \E traj_diff \in {TrajDiff(trajpts_traj, trajpts_tps)} :
                  \E abs_traj_diff \in {AbsTrajDiff(traj_diff)},
                     new_lambda \in {DualUpdate(lambda_bd, traj_diff)},
                     new_sum \in {[r \in 1..Len(traj_diff) |-> [c \in 1..Dim |->
                                     FAdd(hist.diff_sum[r][c], traj_diff[r][c])]]} :
                  \E exit \in {LoopExit(abs_traj_diff, TrajDiffThresh(lambda_bd), itr + 1)},
                     below \in {FLess(abs_traj_diff, TrajDiffThresh(lambda_bd))} :
                     /\ lambda_bd' = new_lambda                         \* line 496
                     /\ itr' = itr + 1
                     /\ pc' = IF exit = "" THEN "loop" ELSE "exited"
                     /\ calls' = [solve |-> calls.solve + 1, fit |-> calls.fit + 1,
                                  update |-> calls.update + 1]
                     /\ \E res \in SolverSamples :                      \* lines 474-475
                           /\ cur_traj' = res.traj
                           /\ hist' = [hist EXCEPT
                                         !.abs = abs_traj_diff,
                                         !.exit = IF exit = "" THEN "none" ELSE exit,
                                         !.solver_failed = @ \/ ~res.converged,
                                         !.last_solved = res.traj,
                                         !.diff_sum = new_sum,
                                         !.first_below =
                                             IF @ = 0 /\ below THEN itr + 1 ELSE @]
                     /\ UNCHANGED outcome
    /\ UNCHANGED <<n_steps, active_lr, rs_events, request, fit_in>>
    /\ UNCHANGED <<ctorVars, greedyVars>>

(***************************************************************************)
(* transfer, lines 502-520: build and return the augmented trajectory.     *)
(***************************************************************************)
TransferResult_InitTraj(traj, events) == AugTraj(0, events)

\* lines 505-506 and 520: the trajectory is cur_traj, the events are those of
\* demo_aug_traj_rs
TransferResult(traj, events) == AugTraj(traj, events)

TransferReturn ==
    /\ pc = "exited"
    /\ pc' = "returned"
    /\ outcome' = TransferResult(cur_traj, rs_events)
    /\ UNCHANGED <<itr, n_steps, active_lr, rs_events, lambda_bd, theta, cur_traj,
                   request, request_i, fit_in, last_fit, calls, hist>>
    /\ UNCHANGED <<ctorVars, greedyVars>>

Next == TransferBegin \/ Iterate \/ TransferReturn

Spec == Init /\ [][Next]_vars

(***************************************************************************)
(* Constructors of the three transfer strategies.                          *)
(***************************************************************************)
TransfererClasses ==
    { "TwoStepRegistrationAndTrajectoryTransferer",
      "UnifiedRegistrationAndTrajectoryTransferer",
      "DecompRegistrationAndTrajectoryTransferer" }

\* classes of the objects a caller may pass as registration factory and as
\* trajectory transferer
RegistrationFactoryClasses == {"RegistrationFactory", "TpsRpmRegistrationFactory"}
TrajectoryTransfererClasses == {"TrajectoryTransferer", "FingerTrajectoryTransferer"}

\* isinstance(obj, cls), obj given by its class (the sampled classes have no
\* subclasses among them)
IsInstance(obj_cls, cls) == obj_cls = cls

\* RegistrationAndTrajectoryTransferer.__init__: stores both arguments
NewObject(cls, rf, tt) ==
    [cls |-> cls, registration_factory |-> rf, trajectory_transferer |-> tt]

\* the type checks shared by Unified.__init__ and Decomp.__init__; the
\* exception they raise, "" if none
TypeCheckError(rf, tt) ==
    IF ~IsInstance(rf, "TpsRpmRegistrationFactory")
    THEN "NotImplementedError: only supports TpsRpmRegistrationFactory"
    ELSE IF ~IsInstance(tt, "FingerTrajectoryTransferer")
    THEN "NotImplementedError: only supports FingerTrajectoryTransferer"
    ELSE ""

TwoStepInitError_Checked(rf, tt) == TypeCheckError(rf, tt)

\* TwoStepRegistrationAndTrajectoryTransferer defines no __init__: the base
\* class constructor runs, which checks nothing
TwoStepInitError(rf, tt) == ""

UnifiedInitError(rf, tt) == TypeCheckError(rf, tt)

DecompInitError_NoTransfererCheck(rf, tt) ==
    IF ~IsInstance(rf, "TpsRpmRegistrationFactory")
    THEN "NotImplementedError: only supports TpsRpmRegistrationFactory"
    ELSE ""

DecompInitError(rf, tt) == TypeCheckError(rf, tt)

InitError(cls, rf, tt) ==
    IF cls = "TwoStepRegistrationAndTrajectoryTransferer" THEN TwoStepInitError(rf, tt)
    ELSE IF cls = "UnifiedRegistrationAndTrajectoryTransferer" THEN UnifiedInitError(rf, tt)
    ELSE DecompInitError(rf, tt)

\* cls(registration_factory, trajectory_transferer)
Construct ==
    /\ Cardinality(objects) < MaxObjects
    /\ \E cls \in TransfererClasses, rf \in RegistrationFactoryClasses,
          tt \in TrajectoryTransfererClasses :
          \E err \in {InitError(cls, rf, tt)} :
             /\ last_new' = [cls |-> cls, registration_factory |-> rf,
                             trajectory_transferer |-> tt, error |-> err]
             /\ objects' = IF err = "" THEN objects \cup {NewObject(cls, rf, tt)}
                           ELSE objects
    /\ UNCHANGED <<reached, coordVars, greedyVars>>

\* obj.transfer(demo, test_scene_state) is entered on a constructed object
EnterTransfer ==
    /\ \E o \in objects : reached' = reached \cup {o}
    /\ UNCHANGED <<objects, last_new, coordVars, greedyVars>>

NextCtor == Construct \/ EnterTransfer

SpecCtor == Init /\ [][NextCtor]_vars

Compatible(o) ==
    /\ IsInstance(o.registration_factory, "TpsRpmRegistrationFactory")
    /\ IsInstance(o.trajectory_transferer, "FingerTrajectoryTransferer")

IsTwoStep(o) == o.cls = "TwoStepRegistrationAndTrajectoryTransferer"

\* C8: constructing a Unified or Decomp transferer with a registration factory
\* that is no TpsRpmRegistrationFactory, or a trajectory transferer that is no
\* FingerTrajectoryTransferer, raises during construction; no such object
\* exists and transfer is never entered on one.
C8_IncompatiblePairRejected ==
    /\ (last_new.cls # "" /\ ~IsTwoStep(last_new) /\ ~Compatible(last_new)
           => last_new.error # "")
    /\ \A o \in objects \cup reached : ~IsTwoStep(o) => Compatible(o)

C8_Witness ==
    /\ last_new.cls = "DecompRegistrationAndTrajectoryTransferer"
    /\ last_new.registration_factory = "TpsRpmRegistrationFactory"
    /\ last_new.trajectory_transferer = "TrajectoryTransferer"
    /\ last_new.error # ""
    /\ \E o \in reached : o.cls = "UnifiedRegistrationAndTrajectoryTransferer"

\* C9 as stated: constructing a TwoStep transferer with an incompatible
\* registration factory or trajectory transferer raises at construction.
C9_TwoStepRejectsIncompatible ==
    /\ (IsTwoStep(last_new) /\ ~Compatible(last_new) => last_new.error # "")
    /\ \A o \in objects : IsTwoStep(o) => Compatible(o)

\* C9 amended: constructing a TwoStep transferer never raises, whatever the
\* classes of the registration factory and of the trajectory transferer; the
\* object stores the pair as given.
C9_TwoStepAcceptsAnyPair ==
    IsTwoStep(last_new) =>
        /\ last_new.error = ""
        /\ NewObject(last_new.cls, last_new.registration_factory,
                     last_new.trajectory_transferer) \in objects

C9_Witness ==
    /\ IsTwoStep(last_new) /\ ~Compatible(last_new)
    /\ \E o \in reached : IsTwoStep(o) /\ ~Compatible(o)

(***************************************************************************)
(* GreedyActionSelection.plan_agenda (action_selection.py, lines 33-37).   *)
(* Actions are numbered in the order in which their names compare.         *)
(***************************************************************************)
Actions == 1..MaxActions
Costs == 0..MaxCost

\* the orders in which action2q_value.items() may list the dictionary
ItemOrders(action2q_value) ==
    LET acts == DOMAIN action2q_value
        n == Cardinality(acts)
    IN { [i \in 1..n |-> <<o[i], action2q_value[o[i]]>>] :
            o \in { f \in [1..n -> acts] : \A i, j \in 1..n : f[i] = f[j] => i = j } }

\* Python's < on (q_value, action) tuples
TupleLess(x, y) == x[1] < y[1] \/ (x[1] = y[1] /\ x[2] < y[2])

\* insert x into an ascending sequence, before the first element above it
RECURSIVE InsertSorted(_, _)
InsertSorted(x, srt) ==
    IF Len(srt) = 0 THEN <<x>>
    ELSE IF TupleLess(x, srt[1]) THEN <<x>> \o srt
    ELSE <<srt[1]>> \o InsertSorted(x, Tail(srt))

RECURSIVE SortFrom(_, _)
SortFrom(seq, n) == IF n = 0 THEN <<>> ELSE InsertSorted(seq[n], SortFrom(seq, n - 1))

Sorted_Unsorted(seq) == seq

\* sorted(seq): ascending, stable
Sorted(seq) == SortFrom(seq, Len(seq))

\* zip(*seq) on a list of pairs: the list of the two columns, [] for no pairs
ZipStar(seq) ==
    IF Len(seq) = 0 THEN <<>>
    ELSE << [i \in 1..Len(seq) |-> seq[i][1]], [i \in 1..Len(seq) |-> seq[i][2]] >>

\* lines 35-37, on the items of the dictionary batch_cost returned
plan_agenda(items) ==
    LET pairs == [i \in 1..Len(items) |-> <<items[i][2], items[i][1]>>]
        cols == ZipStar(Sorted(pairs))
    IN IF Len(cols) # 2                       \* q_values, agenda = <0 values>
       THEN [items |-> items, kind |-> "raised", error |-> "ValueError",
             agenda |-> <<>>, q_values |-> <<>>]
       ELSE [items |-> items, kind |-> "returned", error |-> "",
             agenda |-> cols[2], q_values |-> cols[1]]

\* one call per behaviour: plan_agenda keeps no state between calls
PlanAgenda ==
    /\ g_call.kind = "none"
    /\ \E acts \in SUBSET Actions :
       \E action2q_value \in [acts -> Costs] :
       \E items \in ItemOrders(action2q_value) :
          g_call' = plan_agenda(items)
    /\ UNCHANGED <<coordVars, ctorVars, beam>>

NextGreedy == PlanAgenda

SpecGreedy == Init /\ [][NextGreedy]_vars

(***************************************************************************)
(* MmqeActionSelection (action_selection.py, lines 39-72).  plan_agenda    *)
(* hands its two closures to beam_search of mmqe.search, which is outside  *)
(* src: the search driver below follows the description of the search     *)
(* (expand every surviving plan by every demonstration, keep the width     *)
(* best by cumulative value, stop at depth or at a knot).                  *)
(* A scene is the sequence of the demonstrations executed on it.           *)
(***************************************************************************)
Demos == 1..MaxDemos

Scenes(d) == UNION { [1..k -> Demos] : k \in 0..d }

\* lines 53-54: np.dot(self.features.features(state), self.features.weights),
\* with the features counting the executions of each demonstration and the
\* weights 1 on the odd demonstrations, 0 on the even ones
evaluator(state) == Cardinality({ i \in 1..Len(state) : state[i] % 2 = 1 })

\* line 67: is_knot(rope_sim_obj.rope.GetControlPoints()) of the scene the
\* simulator holds; goal is the scene whose rope is knotted
is_knot(scene, goal) == scene = goal

\* lines 56-68 on the object self, with env_scene the scene self.lfd_env holds
\* when the call starts: the trajectory is transferred for state, executed on
\* self.lfd_env, and the scene is observed from self.lfd_env
simulate_transfer(self, env_scene, state, action, next_state_id) ==
    LET executed == Append(env_scene, action)
    IN [env_scene |-> executed,
        result |-> <<executed, next_state_id, is_knot(executed, self.goal)>>,
        sim |-> [transferer |-> self.transferer, executed_on |-> self.lfd_env,
                 observed_from |-> self.lfd_env, state |-> state,
                 action |-> action, result_state |-> executed]]

\* the (plan, demonstration) pairs of a depth, in enumeration order
Expansions(n_plans) ==
    [k \in 1..(n_plans * MaxDemos) |->
        <<((k - 1) \div MaxDemos) + 1, ((k - 1) % MaxDemos) + 1>>]

\* the children before child i in the order of the selection: higher
\* cumulative value first, enumeration order among equals
Rank(children, i) ==
    Cardinality({ j \in 1..Len(children) :
                    \/ children[j].value > children[i].value
                    \/ children[j].value = children[i].value /\ j < i })

TopWidth(children, width) ==
    [r \in 1..(IF width < Len(children) THEN width ELSE Len(children)) |->
        children[CHOOSE i \in 1..Len(children) : Rank(children, i) = r - 1]]

RootPlan == [actions |-> <<>>, state |-> <<>>, value |-> 0, knot |-> FALSE]

\* lines 41-50
MmqeInit ==
    /\ beam.pc = "none"
    /\ \E width \in 1..DefaultWidth, depth \in 1..DefaultDepth :
          beam' = [beam EXCEPT !.pc = "constructed", !.width = width, !.depth = depth,
                               !.transferer = "simulator", !.lfd_env = "lfd_env"]
    /\ UNCHANGED <<coordVars, ctorVars, g_call>>

\* lines 52-72: plan_agenda enters beam_search(scene_state, self.actions,
\* simulate_transfer, evaluator, self.lfd_env, width, depth)
MmqePlanAgenda ==
    /\ beam.pc = "constructed"
    /\ \E goal \in Scenes(beam.depth), restores \in BOOLEAN :
          beam' = [beam EXCEPT !.pc = "searching", !.goal = goal,
                               !.restores = restores, !.level = 1,
                               !.frontier = <<RootPlan>>, !.todo = Expansions(1)]
    /\ UNCHANGED <<coordVars, ctorVars, g_call>>

\* one call of simulate_transfer by the search, for the next pair of the
\* depth; the search may or may not put the plan's scene back into the
\* simulator it was handed before the call
SimulateTransfer ==
    /\ beam.pc = "searching" /\ beam.todo # <<>>
    /\ LET plan == beam.frontier[Head(beam.todo)[1]]
           action == Head(beam.todo)[2]
           held == IF beam.restores THEN plan.state ELSE beam.env_scene
           r == simulate_transfer(beam, held, plan.state, action, Len(beam.sims) + 1)
       IN beam' = [beam EXCEPT
                     !.todo = Tail(@),
                     !.env_scene = r.env_scene,
                     !.sims = Append(@, r.sim),
                     !.children = Append(@, [actions |-> Append(plan.actions, action),
                                             state |-> r.result[1],
                                             value |-> plan.value + evaluator(r.result[1]),
                                             knot |-> r.result[3]])]
    /\ UNCHANGED <<coordVars, ctorVars, g_call>>

\* the end of a depth: the width best children survive; the search returns
\* at the last depth or when a child reached a knot
BeamSelect ==
    /\ beam.pc = "searching" /\ beam.todo = <<>>
    /\ LET kept == TopWidth(beam.children, beam.width)
           knots == { i \in 1..Len(beam.children) : beam.children[i].knot }
           best == IF knots = {}
                   THEN kept[1]
                   ELSE beam.children[CHOOSE i \in knots : \A j \in knots :
                                         Rank(beam.children, i) <= Rank(beam.children, j)]
       IN IF beam.level = beam.depth \/ knots # {}
          THEN beam' = [beam EXCEPT !.pc = "done", !.children = <<>>,
                                    !.frontier = kept,
                                    !.agenda = best.actions, !.value = best.value]
          ELSE beam' = [beam EXCEPT !.level = @ + 1, !.frontier = kept,
                                    !.children = <<>>,
                                    !.todo = Expansions(Len(kept))]
    /\ UNCHANGED <<coordVars, ctorVars, g_call>>

NextBeam == MmqeInit \/ MmqePlanAgenda \/ SimulateTransfer \/ BeamSelect

SpecBeam == Init /\ [][NextBeam]_vars

\* the cost the oracle reported for action a in the last call
OracleCost(a) ==
    LET i == CHOOSE k \in 1..Len(g_call.items) : g_call.items[k][1] = a
    IN g_call.items[i][2]

ReportedActions == { g_call.items[i][1] : i \in 1..Len(g_call.items) }

\* C5: for an oracle result with at least one action, plan_agenda returns every
\* reported action exactly once, with a cost list of the same length in
\* non-decreasing order whose i-th entry is the oracle's cost of the i-th agenda
\* action; actions of equal cost are ordered by ascending name.
C5_GreedyRanking ==
    Len(g_call.items) >= 1 =>
        /\ g_call.kind = "returned"
        /\ Len(g_call.agenda) = Len(g_call.items)
        /\ Len(g_call.q_values) = Len(g_call.agenda)
        /\ { g_call.agenda[i] : i \in 1..Len(g_call.agenda) } = ReportedActions
        /\ \A i \in 1..Len(g_call.agenda) :
              g_call.q_values[i] = OracleCost(g_call.agenda[i])
        /\ \A i \in 1..(Len(g_call.agenda) - 1) :
              /\ g_call.q_values[i] <= g_call.q_values[i + 1]
              /\ (g_call.q_values[i] = g_call.q_values[i + 1]
                     => g_call.agenda[i] < g_call.agenda[i + 1])

\* three actions, listed by the oracle in descending name order, two of them
\* with equal cost
C5_Witness ==
    /\ g_call.kind = "returned"
    /\ g_call.items = << <<3, 1>>, <<2, 0>>, <<1, 1>> >>
    /\ g_call.agenda = <<2, 1, 3>>

\* C6: when the oracle reports no action, plan_agenda returns an empty agenda
\* and an empty cost list and raises nothing.
C6_EmptyAgenda ==
    (g_call.kind # "none" /\ Len(g_call.items) = 0) =>
        /\ g_call.kind = "returned"
        /\ g_call.agenda = <<>> /\ g_call.q_values = <<>>

(***************************************************************************)
(* Properties of the coordinator loop.                                     *)
(***************************************************************************)
LoopLeft == pc \in {"exited", "returned"}

\* x >= y on floats (False when either is NaN)
FGeq(x, y) == x[1] # "nan" /\ y[1] # "nan" /\ ~FLess(x, y)

\* C1: the alternating loop is left after at most max_iter (20) passes, that is
\* after at most 20 optimizer solves, and it is left either by the convergence
\* test or by the iteration cap.
C1_LoopBounded ==
    /\ itr <= max_iter
    /\ calls.solve <= max_iter
    /\ (pc = "loop" => itr < max_iter)
    /\ (LoopLeft => hist.exit \in {"converged", "cap"})
    /\ (hist.exit = "cap" => itr = max_iter)

C1_Witness == pc = "exited" /\ hist.exit = "cap" /\ calls.solve = max_iter

\* C2: the first pass whose discrepancy is strictly below 1e-2 * lambda.size is
\* the last one (no solve and no refit happens after it), and after a pass whose
\* discrepancy is at or above the threshold, with fewer than 20 passes run, the
\* loop goes on.
C2_ConvergenceStopsLoop ==
    /\ (hist.first_below # 0 =>
           /\ LoopLeft /\ hist.exit = "converged"
           /\ itr = hist.first_below
           /\ calls.solve = hist.first_below /\ calls.fit = hist.first_below)
    /\ (/\ itr >= 1 /\ itr < max_iter
        /\ pc \in {"loop", "exited", "returned"}
        /\ FGeq(hist.abs, TrajDiffThresh(lambda_bd))
        => pc = "loop")

C2_Witness ==
    /\ pc = "returned" /\ hist.first_below = 3
    /\ hist.abs = Num(ThreshCoef * (Size(lambda_bd) - 1))

\* C3: when the loop ran all 20 passes without the convergence test succeeding,
\* transfer raises nothing and returns the augmented trajectory built from the
\* joint trajectory of the last solve and the resampled demonstration's
\* open/close events, unmodified.
C3_CapReturnsLastTrajectory ==
    hist.exit = "cap" =>
        /\ LoopLeft
        /\ (pc = "exited" => ENABLED TransferReturn)
        /\ (pc = "returned" => outcome = AugTraj(hist.last_solved, rs_events))

C3_Witness ==
    /\ pc = "returned" /\ hist.exit = "cap" /\ itr = max_iter
    /\ outcome.kind = "aug_traj" /\ outcome.traj = NTraj
    /\ outcome.events.open[1]

\* the results that runs ending by the convergence test, with every solve
\* converged, give back
ConvergedRunResults ==
    { AugTraj(t, ev) : t \in TrajIds, ev \in EventSamples(n_steps) }

\* C4: a run in which some solve did not converge, or which ended by the
\* iteration cap, gives back a result that differs from the result of a
\* converged run.
C4_NonConvergenceReported ==
    (pc = "returned" /\ (hist.exit = "cap" \/ hist.solver_failed))
        => outcome \notin ConvergedRunResults

\* C7: a contact-point trajectory whose length differs from n_steps makes
\* transfer raise before the first solve; no trajectory is returned.
C7_MismatchIsFatal ==
    hist.mismatch =>
        /\ pc = "raised" /\ outcome.kind = "raised"
        /\ calls.solve = 0 /\ calls.fit = 0

C7_Witness == hist.mismatch /\ outcome.error = "AssertionError"

\* C10: a pass whose refitted warp parameters or discrepancy are NaN or Inf
\* ends the loop in that pass: no further pass runs on them.
C10_NonFiniteAbortsLoop ==
    (itr >= 1 /\ (theta = "nan" \/ ~IsFinite(hist.abs))) => pc # "loop"

\* transfer got past its set-up (lines 205-410), so lambda_bd exists
DualsExist == pc \in {"loop", "exited", "returned"} \/ (pc = "raised" /\ calls.solve > 0)

\* C14: the duals start at .001 in the first coordinate of every row and 0
\* elsewhere, whatever the input; every pass replaces each entry by its value
\* minus nu times the same entry of traj_diff, and nothing else changes them:
\* after k passes lambda_bd is the bias minus nu times the sum of the k
\* traj_diff arrays.
C14_DualAscent ==
    /\ (pc = "idle" => lambda_bd = <<>>)
    /\ calls.update = itr
    /\ (DualsExist =>
           /\ Len(hist.diff_sum) = Len(lambda_bd)
           /\ \A r \in 1..Len(lambda_bd) : \A c \in 1..Dim :
                 lambda_bd[r][c] =
                     FSub(Num(IF c = 1 THEN LambdaBias ELSE 0),
                          FMulNu(hist.diff_sum[r][c])))

C14_Witness ==
    /\ pc = "loop" /\ itr = 3
    /\ lambda_bd[1][1] = Num(LambdaBias - 6)
    /\ lambda_bd[1][2] = Num(0)
    /\ lambda_bd[2][3] = Num(0 - 3)

\* C15: whenever the loop runs (some arm is active), the dual array has 8 rows
\* per timestep of the optimized trajectory, as the achieved and the warped
\* contact-point arrays have, and no pass fails on their shapes.
C15_ShapesAgree ==
    /\ (pc = "loop" => Len(lambda_bd) = 2 * PtsPerFinger * n_steps)
    /\ ~(pc = "raised" /\ calls.solve > 0)

\* a step of Iterate: one pass of the loop built its request and refitted
PassStep == pc = "loop" /\ calls'.fit = calls.fit + 1

\* the contact-following terms of a request
ContactTerms(req) ==
    { k \in 1..Len(req.costs) : req.costs[k].type = "rel_pts_lambdas" }

\* C12: in every pass the contact-following terms of the request carry the
\* negation of rows of lambda_bd, and the warp refit of that pass gets
\* lambda_bd itself as its offsets, as the initial fit does.
C12_OppositeSigns ==
    [][/\ (pc = "idle" /\ pc' = "loop") => last_fit'.offsets = lambda_bd'
       /\ PassStep =>
            /\ last_fit'.offsets = lambda_bd
            /\ \A k \in ContactTerms(request_i') :
                  \E first \in 0..(Len(lambda_bd) - PtsPerFinger) :
                     request_i'.costs[k].lambdas = NegArray(Rows(lambda_bd, first))
      ]_vars

\* the timesteps of the contact-point array tau_bd, which lambda_bd is shaped as
ArrayTimesteps(lam) == Len(lam) \div (2 * PtsPerFinger)

\* the rows before the first row of a finger at a timestep in the array that
\* points_to_array lays out: the left finger's timesteps, then the right's
FingerRows(lam, finger_lr, t) ==
    (IF finger_lr = "l" THEN 0 ELSE PtsPerFinger * ArrayTimesteps(lam))
        + PtsPerFinger * t

\* C13: in every pass's request each finger has, at each timestep, exactly one
\* contact-following term, and that term carries the negation of the four
\* rows of lambda_bd of that finger at that timestep.
C13_OwnRows ==
    [][PassStep =>
         \A finger_lr \in Sides : \A t \in 0..(ArrayTimesteps(lambda_bd) - 1) :
            \E terms \in {{ k \in ContactTerms(request_i') :
                              /\ request_i'.costs[k].link[2] = finger_lr
                              /\ request_i'.costs[k].timestep = t }} :
               /\ Cardinality(terms) = 1
               /\ \A k \in terms :
                     request_i'.costs[k].lambdas =
                         NegArray(Rows(lambda_bd, FingerRows(lambda_bd, finger_lr, t)))
      ]_vars

\* C16: every warp fit, the initial one and each pass's refit, gets bend and
\* rot coefficients per dimension and weights that are present.
C16_FitArgsNormalised ==
    last_fit # NoFit =>
        /\ last_fit.bend_coefs = "per_dim"
        /\ last_fit.rot_coefs = "per_dim"
        /\ last_fit.wt_n # "None"

\* C17: every pass leaves the base request as set-up built it (the joint_vel
\* cost, and the collision cost iff it is enabled, no init_info), and builds
\* a request of the base costs followed by 2*n_steps contact-following
\* terms, whose init_info is the trajectory of the previous solve.
C17_FreshRequest ==
    [][PassStep =>
         /\ request' = request
         /\ \E use_collision_cost \in BOOLEAN :
               request = BaseRequest(n_steps, use_collision_cost)
         /\ Len(request_i'.costs) = Len(request.costs) + 2 * n_steps
         /\ SubSeq(request_i'.costs, 1, Len(request.costs)) = request.costs
         /\ ContactTerms(request_i') =
                (Len(request.costs) + 1)..Len(request_i'.costs)
         /\ request_i'.init_info = cur_traj
      ]_vars

\* C11: in beam-search action selection no two simulations execute on, or
\* observe the scene from, the same simulator instance.
C11_OwnSimulator ==
    \A i, j \in 1..Len(beam.sims) :
        i # j => /\ beam.sims[i].executed_on # beam.sims[j].executed_on
                 /\ beam.sims[i].observed_from # beam.sims[j].observed_from

====
